---------------------------- MODULE Spec2Model ----------------------------
(***************************************************************************)
(* A model of pagerank.py: crawl, transition_model, sample_pagerank and    *)
(* iterate_pagerank.                                                       *)
(*                                                                         *)
(* Numbers.  transition_model and the final division of sample_pagerank    *)
(* are one-step computations and are modelled in exact rational            *)
(* arithmetic, a rational being a pair <<numerator, denominator>> in       *)
(* lowest terms.  iterate_pagerank runs an unbounded number of passes, so  *)
(* its ranks are fixed-point numbers: the integer r stands for r / Scale,  *)
(* and every division rounds down, which stands for the rounding of the    *)
(* floating-point operations.                                              *)
(***************************************************************************)
EXTENDS Integers, Sequences, FiniteSets

\* ------------------------------------------------------------- bounds

\* Largest sample count n the caller passes to sample_pagerank.
MaxSamples == 3

\* One unit of rank in the fixed-point arithmetic of iterate_pagerank.
Scale == 1000000

\* The page names a corpus is drawn from.
Pages == {"1.html", "2.html", "3.html"}

\* The directory entries crawl may meet, and the link targets a file may name.
FileNames == {"1.html", "2.html", "notes.txt"}
LinkTargets == FileNames \cup {"ext.html"}

\* ---------------------------------------------------- program constants

\* DAMPING = 0.85
DAMPING == <<17, 20>>

\* The convergence threshold of iterate_pagerank is 1 / ThresholdInv.
ThresholdInv == 1000

\* --------------------------------------------------- rational numbers

Abs(x) == IF x < 0 THEN -x ELSE x

RECURSIVE GCD(_, _)
GCD(a, b) == IF b = 0 THEN a ELSE GCD(b, a % b)

\* The rational num / den (den # 0) in lowest terms with a positive denominator.
Rat(num, den) ==
    LET g == GCD(Abs(num), Abs(den))
        s == IF den < 0 THEN -1 ELSE 1
    IN  <<(s * num) \div g, (s * den) \div g>>

Zero == <<0, 1>>
One == <<1, 1>>

RAdd(a, b) == Rat(a[1] * b[2] + b[1] * a[2], a[2] * b[2])
RSub(a, b) == Rat(a[1] * b[2] - b[1] * a[2], a[2] * b[2])
\* a / k for an integer k # 0
RDivInt(a, k) == Rat(a[1], a[2] * k)
RLeq(a, b) == a[1] * b[2] <= b[1] * a[2]
RLess(a, b) == a[1] * b[2] < b[1] * a[2]

\* The sum of the values of a table of rationals.
RECURSIVE RSumOver(_, _)
RSumOver(f, S) ==
    IF S = {} THEN Zero
    ELSE LET x == CHOOSE y \in S : TRUE
         IN  RAdd(f[x], RSumOver(f, S \ {x}))

RSum(f) == RSumOver(f, DOMAIN f)

\* The sum of the values of a table of integers.
RECURSIVE ISumOver(_, _)
ISumOver(f, S) ==
    IF S = {} THEN 0
    ELSE LET x == CHOOSE y \in S : TRUE
         IN  f[x] + ISumOver(f, S \ {x})

ISum(f) == ISumOver(f, DOMAIN f)

\* ------------------------------------------------------------ inputs

\* The corpora crawl can return on the page set K: no page links to itself
\* and every link leads to a page of K.
CorporaOn(K) == {c \in [K -> SUBSET K] : \A p \in K : p \notin c[p]}

Corpora == UNION {CorporaOn(K) : K \in SUBSET Pages}

\* The orders in which a dict with the keys K can be iterated.
OrdersOf(K) ==
    {s \in [1..Cardinality(K) -> K] : \A a, b \in DOMAIN s : s[a] = s[b] => a = b}

ValidDampings == {<<0, 1>>, <<1, 2>>, DAMPING, <<1, 1>>}
InvalidDampings == {<<-1, 2>>, <<3, 2>>}

SampleCounts == (-1)..MaxSamples

\* The table with no keys.
Empty == [x \in {} |-> 0]

VARIABLES
    op,         \* the function the caller runs
    pc,         \* the place in that function
    outcome,    \* "none" while it runs, "returned", or the exception raised
    corpus,     \* page -> set of pages it links to
    order,      \* the iteration order of the corpus dict
    damping,    \* damping_factor
    page,       \* transition_model: the page argument; sample_pagerank: page
    n,          \* sample_pagerank: n
    i,          \* sample_pagerank: loop index; iterate_pagerank: place in the scan
    dist,       \* transition_model: the dict returned
    cont,       \* sample_pagerank: the visit counters
    ranks,      \* sample_pagerank: the dict returned
    ans,        \* iterate_pagerank: ans
    old,        \* iterate_pagerank: ans as it was when the current pass began
    count,      \* iterate_pagerank: count
    directory,  \* crawl: filename -> link targets found in the file
    unread,     \* crawl: the directory entries the first loop has not reached
    pages       \* crawl: pages

vars == <<op, pc, outcome, corpus, order, damping, page, n, i, dist, cont,
          ranks, ans, old, count, directory, unread, pages>>

callVars == <<op, corpus, order, damping, n, directory>>
crawlVars == <<unread, pages>>
transitionVars == <<dist>>
sampleVars == <<cont, ranks>>
iterateVars == <<ans, old, count>>

Size == Cardinality(DOMAIN corpus)

\* ---------------------------------------------------- transition_model

\* Mutation: the link share replaces the base probability instead of adding to it.
transition_model_assign(c, p, d) ==
    LET N == Cardinality(DOMAIN c)
        L == Cardinality(c[p])
    IN  IF L # 0
        THEN [q \in DOMAIN c |->
                 IF q \in c[p] THEN RDivInt(d, L)
                 ELSE RDivInt(RSub(One, d), N)]
        ELSE [q \in DOMAIN c |-> RDivInt(One, N)]

\* Mutation: the sink branch hands out only the undamped share.
transition_model_damped_sink(c, p, d) ==
    LET N == Cardinality(DOMAIN c)
        L == Cardinality(c[p])
    IN  IF L # 0
        THEN [q \in DOMAIN c |->
                 IF q \in c[p]
                 THEN RAdd(RDivInt(RSub(One, d), N), RDivInt(d, L))
                 ELSE RDivInt(RSub(One, d), N)]
        ELSE [q \in DOMAIN c |-> RDivInt(RSub(One, d), N)]

\* The dict transition_model returns for a page p that is a key of c.
transition_model(c, p, d) ==
    LET N == Cardinality(DOMAIN c)
        L == Cardinality(c[p])
    IN  IF L # 0
        THEN [q \in DOMAIN c |->
                 IF q \in c[p]
                 THEN RAdd(RDivInt(RSub(One, d), N), RDivInt(d, L))
                 ELSE RDivInt(RSub(One, d), N)]
        ELSE [q \in DOMAIN c |-> RDivInt(One, N)]

\* corpus[page] raises KeyError for a page that is no key, and cont[link] += ...
\* raises it for a link that is no key.
transition_raises(c, p) ==
    IF p \notin DOMAIN c THEN TRUE
    ELSE \E link \in c[p] : link \notin DOMAIN c

\* The locals of a call that has not begun.
Fresh ==
    /\ pc = "call"
    /\ outcome = "none"
    /\ i = 0
    /\ dist = Empty
    /\ cont = Empty
    /\ ranks = Empty
    /\ ans = Empty
    /\ old = Empty
    /\ count = 0
    /\ unread = {}
    /\ pages = Empty

InitTransition ==
    /\ op = "transition_model"
    /\ corpus \in Corpora
    /\ order = <<>>
    /\ damping \in ValidDampings \cup InvalidDampings
    /\ page \in Pages
    /\ n = 0
    /\ directory = Empty
    /\ Fresh

TransitionReturn ==
    /\ op = "transition_model"
    /\ pc = "call"
    /\ ~transition_raises(corpus, page)
    /\ dist' = transition_model(corpus, page, damping)
    /\ pc' = "done"
    /\ outcome' = "returned"
    /\ UNCHANGED <<callVars, page, i, crawlVars, sampleVars, iterateVars>>

TransitionRaise ==
    /\ op = "transition_model"
    /\ pc = "call"
    /\ transition_raises(corpus, page)
    /\ pc' = "done"
    /\ outcome' = "KeyError"
    /\ UNCHANGED <<callVars, page, i, crawlVars, transitionVars, sampleVars,
                   iterateVars>>

NextTransition == TransitionReturn \/ TransitionRaise

SpecTransition == InitTransition /\ [][NextTransition]_vars

\* ----------------------------------------------------- sample_pagerank

InitSample ==
    /\ op = "sample_pagerank"
    /\ corpus \in Corpora
    /\ order = <<>>
    /\ damping \in ValidDampings
    /\ page = "none"
    /\ n \in SampleCounts
    /\ directory = Empty
    /\ Fresh

\* Lines 90-97: the counters start at 0, a first page is chosen uniformly and
\* counted.
SampleStart ==
    /\ op = "sample_pagerank"
    /\ pc = "call"
    /\ DOMAIN corpus # {}
    /\ \E first \in DOMAIN corpus :
          /\ page' = first
          /\ cont' = [key \in DOMAIN corpus |-> IF key = first THEN 1 ELSE 0]
    /\ i' = 0
    /\ pc' = "walk"
    /\ UNCHANGED <<callVars, outcome, ranks, crawlVars, transitionVars, iterateVars>>

\* random.choice raises IndexError on an empty list.
SampleStartRaise ==
    /\ op = "sample_pagerank"
    /\ pc = "call"
    /\ DOMAIN corpus = {}
    /\ pc' = "done"
    /\ outcome' = "IndexError"
    /\ UNCHANGED <<callVars, page, i, crawlVars, transitionVars, sampleVars,
                   iterateVars>>

\* Lines 100-105, one iteration of `for i in range(n)`: random.choices draws
\* the next page from the pages of positive weight, and the page is counted.
SampleStep ==
    /\ op = "sample_pagerank"
    /\ pc = "walk"
    /\ i < n
    /\ LET sample == transition_model(corpus, page, damping)
       IN  \E next \in DOMAIN sample :
              /\ RLess(Zero, sample[next])
              /\ page' = next
              /\ cont' = [cont EXCEPT ![next] = @ + 1]
    /\ i' = i + 1
    /\ UNCHANGED <<callVars, pc, outcome, ranks, crawlVars, transitionVars,
                   iterateVars>>

\* Lines 108-111: every counter is divided by n and the table is returned.
SampleReturn ==
    /\ op = "sample_pagerank"
    /\ pc = "walk"
    /\ ~(i < n)
    /\ n # 0
    /\ ranks' = [key \in DOMAIN cont |-> Rat(cont[key], n)]
    /\ pc' = "done"
    /\ outcome' = "returned"
    /\ UNCHANGED <<callVars, page, i, cont, crawlVars, transitionVars, iterateVars>>

\* cont[key] / n raises ZeroDivisionError when n is 0.
SampleReturnRaise ==
    /\ op = "sample_pagerank"
    /\ pc = "walk"
    /\ ~(i < n)
    /\ n = 0
    /\ pc' = "done"
    /\ outcome' = "ZeroDivisionError"
    /\ UNCHANGED <<callVars, page, i, crawlVars, transitionVars, sampleVars,
                   iterateVars>>

NextSample ==
    \/ SampleStart
    \/ SampleStartRaise
    \/ SampleStep
    \/ SampleReturn
    \/ SampleReturnRaise

SpecSample == InitSample /\ [][NextSample]_vars

\* ---------------------------------------------------- iterate_pagerank

\* Mutation: the difference is compared without abs().
within_threshold_signed(prev, new) == (prev - new) * ThresholdInv < Scale

\* Line 151: abs(ans[key] - new) < 0.001
within_threshold(prev, new) == Abs(prev - new) * ThresholdInv < Scale

\* Mutation: a page without links adds nothing.
contribution_no_sink(c, a, q, key) ==
    IF key \in c[q] THEN a[q] \div Cardinality(c[q]) ELSE 0

\* Lines 141-146: what page q adds to the sum of key, read from the table a.
contribution(c, a, q, key) ==
    IF key \in c[q] THEN a[q] \div Cardinality(c[q])
    ELSE IF Cardinality(c[q]) = 0 THEN a[q] \div Cardinality(DOMAIN c)
    ELSE 0

\* Lines 140-146: the inner loop over the pages ord[1..k].
RECURSIVE inbound_sum(_, _, _, _, _)
inbound_sum(c, ord, a, key, k) ==
    IF k = 0 THEN 0
    ELSE inbound_sum(c, ord, a, key, k - 1) + contribution(c, a, ord[k], key)

\* Lines 136-149: the value `new` of key, read from the table a.
new_rank(c, ord, d, a, key) ==
    LET N == Cardinality(DOMAIN c)
    IN  ((d[2] - d[1]) * Scale) \div (d[2] * N)
        + (d[1] * inbound_sum(c, ord, a, key, Len(ord))) \div d[2]

InitIterate ==
    /\ op = "iterate_pagerank"
    /\ corpus \in Corpora
    /\ order \in OrdersOf(DOMAIN corpus)
    /\ damping \in ValidDampings
    /\ page = "none"
    /\ n = 0
    /\ directory = Empty
    /\ Fresh

\* Lines 123-128: every rank starts at 1 / N.
IterateBegin ==
    /\ op = "iterate_pagerank"
    /\ pc = "call"
    /\ ans' = [key \in DOMAIN corpus |-> Scale \div Size]
    /\ old' = [key \in DOMAIN corpus |-> Scale \div Size]
    /\ pc' = "pass"
    /\ UNCHANGED <<callVars, page, i, outcome, count, crawlVars, transitionVars,
                   sampleVars>>

\* Lines 130-132: a pass begins.
PassBegin ==
    /\ op = "iterate_pagerank"
    /\ pc = "pass"
    /\ count' = 0
    /\ old' = ans
    /\ i' = 1
    /\ pc' = "scan"
    /\ UNCHANGED <<callVars, page, outcome, ans, crawlVars, transitionVars,
                   sampleVars>>

\* Lines 134-154, one iteration of `for key in corpus`.
ScanKey ==
    /\ op = "iterate_pagerank"
    /\ pc = "scan"
    /\ i <= Len(order)
    /\ LET key == order[i]
           new == new_rank(corpus, order, damping, ans, key)
       IN  /\ count' = IF within_threshold(ans[key], new) THEN count + 1 ELSE count
           /\ ans' = [ans EXCEPT ![key] = new]
    /\ i' = i + 1
    /\ UNCHANGED <<callVars, page, pc, outcome, old, crawlVars, transitionVars,
                   sampleVars>>

\* Lines 156-157: every page of the pass passed the test, ans is returned.
PassReturn ==
    /\ op = "iterate_pagerank"
    /\ pc = "scan"
    /\ i > Len(order)
    /\ count = Size
    /\ pc' = "done"
    /\ outcome' = "returned"
    /\ UNCHANGED <<callVars, page, i, crawlVars, transitionVars, sampleVars,
                   iterateVars>>

\* Line 156 fails: the while loop goes round.
PassRepeat ==
    /\ op = "iterate_pagerank"
    /\ pc = "scan"
    /\ i > Len(order)
    /\ count # Size
    /\ pc' = "pass"
    /\ UNCHANGED <<callVars, page, i, outcome, crawlVars, transitionVars,
                   sampleVars, iterateVars>>

NextIterate ==
    \/ IterateBegin
    \/ PassBegin
    \/ ScanKey
    \/ PassReturn
    \/ PassRepeat

SpecIterate == InitIterate /\ [][NextIterate]_vars

\* The interpreter runs the function on: a step that can be taken is taken.
FairIterate == SpecIterate /\ WF_vars(NextIterate)

\* --------------------------------------------------------------- crawl

\* Line 34: filename.endswith(".html"), over the names of the model.
ends_with_html(filename) == filename \in {"1.html", "2.html", "3.html", "ext.html"}

\* The directories crawl may be given: a set of entries, and for each .html
\* entry the set of the link targets re.findall returns for its contents.  The
\* other entries are never opened.
Directories ==
    UNION {{dir \in [D -> SUBSET LinkTargets] :
               \A f \in D : ~ends_with_html(f) => dir[f] = {}} :
           D \in SUBSET FileNames}

\* Mutation: the page's own name stays among its links.
own_links_keep_self(links, filename) == links

\* Line 39: set(links) - {filename}
own_links(links, filename) == links \ {filename}

\* Lines 43-46: the links that are keys of pages.
links_in_corpus(links, pgs) == {link \in links : link \in DOMAIN pgs}

InitCrawl ==
    /\ op = "crawl"
    /\ corpus = Empty
    /\ order = <<>>
    /\ damping = DAMPING
    /\ page = "none"
    /\ n = 0
    /\ directory \in Directories
    /\ Fresh

\* Lines 30-33: pages is empty and os.listdir has listed the directory.
CrawlBegin ==
    /\ op = "crawl"
    /\ pc = "call"
    /\ pages' = Empty
    /\ unread' = DOMAIN directory
    /\ pc' = "read"
    /\ UNCHANGED <<callVars, page, i, outcome, transitionVars, sampleVars,
                   iterateVars>>

\* Lines 34-35: an entry that is no .html file is passed over.  os.listdir
\* lists the entries in any order.
CrawlSkip ==
    /\ op = "crawl"
    /\ pc = "read"
    /\ \E filename \in unread :
          /\ ~ends_with_html(filename)
          /\ unread' = unread \ {filename}
    /\ UNCHANGED <<callVars, page, i, pc, outcome, pages, transitionVars,
                   sampleVars, iterateVars>>

\* Lines 36-39: the links of an .html file are stored without the file's own name.
CrawlRead ==
    /\ op = "crawl"
    /\ pc = "read"
    /\ \E filename \in unread :
          /\ ends_with_html(filename)
          /\ unread' = unread \ {filename}
          /\ pages' = [f \in DOMAIN pages \cup {filename} |->
                          IF f = filename
                          THEN own_links(directory[filename], filename)
                          ELSE pages[f]]
    /\ UNCHANGED <<callVars, page, i, pc, outcome, transitionVars, sampleVars,
                   iterateVars>>

\* Lines 42-48: the second loop keeps the links to pages of the corpus, and
\* pages is returned.
CrawlFilter ==
    /\ op = "crawl"
    /\ pc = "read"
    /\ unread = {}
    /\ pages' = [f \in DOMAIN pages |-> links_in_corpus(pages[f], pages)]
    /\ pc' = "done"
    /\ outcome' = "returned"
    /\ UNCHANGED <<callVars, page, i, unread, transitionVars, sampleVars,
                   iterateVars>>

NextCrawl ==
    \/ CrawlBegin
    \/ CrawlSkip
    \/ CrawlRead
    \/ CrawlFilter

SpecCrawl == InitCrawl /\ [][NextCrawl]_vars

\* ------------------------------------------------------ the whole module

\* The caller runs one of the four functions on inputs of its choice.
Init ==
    \/ InitCrawl
    \/ InitTransition
    \/ InitSample
    \/ InitIterate

Next ==
    \/ NextCrawl
    \/ NextTransition
    \/ NextSample
    \/ NextIterate

Spec == Init /\ [][Next]_vars

\* ------------------------------------------------------------ properties

ValidDamping == RLeq(Zero, damping) /\ RLeq(damping, One)

TransitionReturned == op = "transition_model" /\ outcome = "returned"
SampleReturned == op = "sample_pagerank" /\ outcome = "returned"
IterateReturned == op = "iterate_pagerank" /\ outcome = "returned"

\* C1: for a corpus of N >= 1 pages, a page that is a key and 0 <= damping <= 1,
\* the dict transition_model returns has exactly the pages of the corpus as
\* keys, no negative value, and values that sum to 1, in the sink and in the
\* non-sink branch.
C1_TransitionIsDistribution ==
    (TransitionReturned /\ ValidDamping) =>
        /\ DOMAIN dist = DOMAIN corpus
        /\ \A q \in DOMAIN dist : RLeq(Zero, dist[q])
        /\ RSum(dist) = One

\* A non-sink page of a three-page corpus, with a page it links to and a page
\* it does not link to, under 0 < damping < 1.
C1_Witness ==
    /\ TransitionReturned
    /\ damping = DAMPING
    /\ Size = 3
    /\ Cardinality(corpus[page]) = 1
    /\ RSum(dist) = One

\* C2: for a sink page transition_model returns 1/N for every page of the
\* corpus, the sink included, whatever the damping.
C2_SinkIsUniform ==
    (TransitionReturned /\ corpus[page] = {}) =>
        /\ DOMAIN dist = DOMAIN corpus
        /\ \A q \in DOMAIN corpus : dist[q] = Rat(1, Size)

\* A sink of a corpus of several pages, under a damping that is neither 0 nor 1.
C2_Witness ==
    /\ TransitionReturned
    /\ corpus[page] = {}
    /\ Size >= 2
    /\ damping = DAMPING
    /\ dist[page] = Rat(1, Size)

\* C3: for N >= 1 and n >= 1 the visit counters of sample_pagerank sum to n
\* when the walk ends, so the values returned sum to 1.
C3_SampleSumsToOne ==
    (SampleReturned /\ Size >= 1 /\ n >= 1) =>
        /\ ISum(cont) = n
        /\ RSum(ranks) = One

\* C4: sample_pagerank with n = 1 returns a table with exactly one page at 1
\* and every other page at 0.
C4_OneSampleOneHot ==
    (SampleReturned /\ Size >= 1 /\ n = 1) =>
        \E p \in DOMAIN ranks :
            /\ ranks[p] = One
            /\ \A q \in DOMAIN ranks \ {p} : ranks[q] = Zero

\* C5: for N >= 1 and 0 <= damping <= 1, the values iterate_pagerank returns
\* sum to 1 within 0.001 * N.
C5_IterateSumsToOne ==
    (IterateReturned /\ Size >= 1 /\ ValidDamping) =>
        Abs(ISum(ans) - Scale) * ThresholdInv <= Scale * Size

\* A precondition of the call is violated: the corpus is empty, the damping is
\* outside [0, 1], or the sample count is not positive.
PreconditionViolated ==
    \/ Size = 0
    \/ ~ValidDamping
    \/ (op = "sample_pagerank" /\ n <= 0)

\* C6: a call of transition_model, sample_pagerank or iterate_pagerank with a
\* violated precondition ends in an error and returns no table.
C6_ViolationsRaise ==
    (/\ op \in {"transition_model", "sample_pagerank", "iterate_pagerank"}
     /\ pc = "done"
     /\ PreconditionViolated) => outcome \notin {"none", "returned"}

\* The documents of the directory: its .html entries.
Documents == {f \in DOMAIN directory : ends_with_html(f)}

\* C7: crawl maps each document to its link targets minus its own name minus
\* the targets that are no page of the corpus, so no page links to itself and
\* every link leads to a key, in whatever order the directory was listed.
C7_CrawlBuildsClosedCorpus ==
    (op = "crawl" /\ pc = "done") =>
        /\ DOMAIN pages = Documents
        /\ \A f \in Documents :
              /\ pages[f] = (directory[f] \ {f}) \cap Documents
              /\ f \notin pages[f]
              /\ pages[f] \subseteq DOMAIN pages

\* A document that names itself, another document, an entry that is no
\* document and a page outside the directory, of which one link remains.
C7_Witness ==
    /\ op = "crawl"
    /\ pc = "done"
    /\ DOMAIN directory = FileNames
    /\ directory["1.html"] = LinkTargets
    /\ pages["1.html"] = {"2.html"}

\* The corpus {A: {B}, B: {}} with A = 1.html and B = 2.html.
ExampleCorpus == [p \in {"1.html", "2.html"} |-> IF p = "1.html" THEN {"2.html"} ELSE {}]

ExampleCall ==
    /\ op = "iterate_pagerank"
    /\ corpus = ExampleCorpus
    /\ damping = DAMPING

\* C8 as stated: on {A: {B}, B: {}} with damping 0.85, iterate_pagerank
\* returns ranks within 0.001 of 0.5 for both A and B.
C8_ExampleHalves ==
    (ExampleCall /\ outcome = "returned") =>
        /\ Abs(2 * ans["1.html"] - Scale) * ThresholdInv < 2 * Scale
        /\ Abs(2 * ans["2.html"] - Scale) * ThresholdInv < 2 * Scale

\* The ranks returned on the example: A within 0.005 of 0.351 and B within
\* 0.005 of 0.649.
ExampleRanks ==
    /\ Abs(1000 * ans["1.html"] - 351 * Scale) <= 5 * Scale
    /\ Abs(1000 * ans["2.html"] - 649 * Scale) <= 5 * Scale

\* C8, amended: on {A: {B}, B: {}} with damping 0.85, iterate_pagerank
\* terminates, and it returns rank 0.351 for A and 0.649 for B, each within
\* 0.005.
C8_ExampleRanks ==
    /\ []((ExampleCall /\ outcome = "returned") => ExampleRanks)
    /\ (ExampleCall ~> (ExampleCall /\ outcome = "returned"))

\* The call on the example has returned.
C8_Witness == ExampleCall /\ outcome = "returned" /\ ExampleRanks

\* The scan of the current pass has reached the end of the corpus.
PassScanned == op = "iterate_pagerank" /\ pc = "scan" /\ i > Len(order)

\* C9: the new rank of every page is computed from the ranks as they were
\* when the pass began, so that at the end of a pass every rank is the value
\* of the update formula on the previous pass's table.
C9_PassReadsSnapshot ==
    PassScanned =>
        \A key \in DOMAIN corpus :
            ans[key] = new_rank(corpus, order, damping, old, key)

\* Every page of the pass just scanned moved by less than 0.001 from its value
\* before the pass.
PassConverged ==
    \A p \in DOMAIN corpus : Abs(ans[p] - old[p]) * ThresholdInv < Scale

\* C10: iterate_pagerank returns at the end of a pass if and only if every
\* page moved by less than 0.001 in that pass from its value before the pass;
\* it returns the table of that pass, and it returns at no other place.
C10_ReturnsWhenPassConverged ==
    [][op = "iterate_pagerank" =>
          /\ PassScanned => ((pc' = "done") <=> PassConverged)
          /\ (pc # "done" /\ pc' = "done") =>
                /\ PassScanned
                /\ PassConverged
                /\ outcome' = "returned"
                /\ ans' = ans]_vars

\* A return after a pass that still moved a rank of a three-page corpus.
C10_Witness ==
    /\ IterateReturned
    /\ Size = 3
    /\ PassConverged
    /\ \E p \in DOMAIN corpus : ans[p] # old[p]

=============================================================================
